---- MODULE Spec2Model ----
\* WattAI cost engine (src/wattai.py) and its cheapest-option scan
\* (find_cheapest_option in src/wattai_app.py).
\*
\* Units: electricity price in US cents per kWh, hourly cloud price in US
\* cents per hour, hours in whole hours.  Every money amount is kept exactly
\* as an integer scaled by WATTS_TO_KWH_CONVERSION, so the division
\* (watts * hours) / 1000 of the source is represented by the scale, and
\* energy_kwh is kept in watt-hours.
\* The emoji prefixes of the scan labels are not representable in TLA+
\* strings and are left out of the label text.
EXTENDS Integers, Sequences, FiniteSets, TLC

\* ---------------------------------------------------------------- bounds
MaxCatalogLen == 2
MaxHours == 2
MaxPrice == 10

WATTS_TO_KWH_CONVERSION == 1000

GpuNames == {"RTX 3090", "A100", "RTX 4090"}
QueryNames == GpuNames \cup {"nonexistent-gpu"}
\* GPU_DATABASE (hourly_cost_usd in cents per hour)
GPU_DATABASE ==
  << [name |-> "RTX 3090", watts |-> 350, hourly_cost_usd |-> 180],
     [name |-> "A100", watts |-> 400, hourly_cost_usd |-> 350],
     [name |-> "RTX 4090", watts |-> 450, hourly_cost_usd |-> 220] >>

\* (watts, hourly price) pairs of the database records, plus a zero-price
\* variant so that cloud/local ties occur
GpuSpecs == {[watts |-> GPU_DATABASE[i].watts,
              hourly_cost_usd |-> GPU_DATABASE[i].hourly_cost_usd] : i \in 1..3}
            \cup {[watts |-> 350, hourly_cost_usd |-> 0]}
GpuRecords == {[name |-> n, watts |-> s.watts, hourly_cost_usd |-> s.hourly_cost_usd] :
                 n \in GpuNames, s \in GpuSpecs}
Prices == {-1, 0, MaxPrice}
Hours == -1..MaxHours

\* Catalogs: the program's GPU_DATABASE, and every sequence of up to
\* MaxCatalogLen distinct GPU names with their records (dict insertion order).
Catalogs ==
  {GPU_DATABASE} \cup UNION { { c \in [1..n -> GpuRecords] :
              \A i, j \in 1..n : i # j => c[i].name # c[j].name }
          : n \in 0..MaxCatalogLen }

VARIABLES catalog, price, hours, gpu, valRes, cloudRes, localRes,
          pc, idx, cheapestPrice, cheapestLabel, errors, result

vars == <<catalog, price, hours, gpu, valRes, cloudRes, localRes,
          pc, idx, cheapestPrice, cheapestLabel, errors, result>>

NoRes == [kind |-> "none"]

\* ------------------------------------------------------- catalog helpers
Keys(db) == [i \in 1..Len(db) |-> db[i].name]

InDatabase(db, n) == \E i \in 1..Len(db) : db[i].name = n

Lookup(db, n) == db[CHOOSE i \in 1..Len(db) : db[i].name = n]

\* ------------------------------------------------------------- exceptions
InvalidInputError(msg) == [kind |-> "InvalidInputError", args |-> <<msg>>]

\* GPUNotFoundError(f"GPU '{gpu_name}' not found in database. Available GPUs: {list(GPU_DATABASE.keys())}")
GPUNotFoundError(db, n) ==
  [kind |-> "GPUNotFoundError",
   args |-> << <<"GPU '", n, "' not found in database. Available GPUs: ", Keys(db)>> >>]

validate_inputs_nonpositive(p, h) ==
  IF p < 0 THEN InvalidInputError("Electricity cost cannot be negative")
  ELSE IF h <= 0 THEN InvalidInputError("Hours cannot be negative")
  ELSE [kind |-> "ok"]

\* validate_inputs: returns "ok" or the raised InvalidInputError
validate_inputs(p, h) ==
  IF p < 0 THEN InvalidInputError("Electricity cost cannot be negative")
  ELSE IF h < 0 THEN InvalidInputError("Hours cannot be negative")
  ELSE [kind |-> "ok"]

calculate_cloud_cost_total_compute(db, p, n, h) ==
  LET v == validate_inputs(p, h) IN
  IF v.kind # "ok" THEN v
  ELSE IF ~InDatabase(db, n) THEN GPUNotFoundError(db, n)
  ELSE LET gpu_rec == Lookup(db, n)
           energy_kwh == gpu_rec.watts * h
           energy_cost == energy_kwh * p
           compute_cost == gpu_rec.hourly_cost_usd * h * WATTS_TO_KWH_CONVERSION
       IN [kind |-> "ok", energy_kwh |-> energy_kwh, energy_cost_usd |-> energy_cost,
           compute_cost_usd |-> compute_cost, total_cost_usd |-> compute_cost]

calculate_cloud_cost_hourly_only(db, p, n, h) ==
  LET v == validate_inputs(p, h) IN
  IF v.kind # "ok" THEN v
  ELSE IF ~InDatabase(db, n) THEN GPUNotFoundError(db, n)
  ELSE LET gpu_rec == Lookup(db, n)
           energy_kwh == gpu_rec.watts * h
           energy_cost == energy_kwh * p
           compute_cost == gpu_rec.hourly_cost_usd * WATTS_TO_KWH_CONVERSION
       IN [kind |-> "ok", energy_kwh |-> energy_kwh, energy_cost_usd |-> energy_cost,
           compute_cost_usd |-> compute_cost, total_cost_usd |-> energy_cost + compute_cost]

calculate_cloud_cost_no_check(db, p, n, h) ==
  LET v == validate_inputs(p, h) IN
  IF v.kind # "ok" THEN v
  ELSE IF ~InDatabase(db, n) THEN [kind |-> "KeyError", args |-> <<n>>]
  ELSE LET gpu_rec == Lookup(db, n)
           energy_kwh == gpu_rec.watts * h
           energy_cost == energy_kwh * p
           compute_cost == gpu_rec.hourly_cost_usd * h * WATTS_TO_KWH_CONVERSION
       IN [kind |-> "ok", energy_kwh |-> energy_kwh, energy_cost_usd |-> energy_cost,
           compute_cost_usd |-> compute_cost, total_cost_usd |-> energy_cost + compute_cost]

calculate_cloud_cost_lookup_first(db, p, n, h) ==
  LET v == validate_inputs(p, h) IN
  IF ~InDatabase(db, n) THEN GPUNotFoundError(db, n)
  ELSE IF v.kind # "ok" THEN v
  ELSE LET gpu_rec == Lookup(db, n)
           energy_kwh == gpu_rec.watts * h
           energy_cost == energy_kwh * p
           compute_cost == gpu_rec.hourly_cost_usd * h * WATTS_TO_KWH_CONVERSION
       IN [kind |-> "ok", energy_kwh |-> energy_kwh, energy_cost_usd |-> energy_cost,
           compute_cost_usd |-> compute_cost, total_cost_usd |-> energy_cost + compute_cost]

calculate_cloud_cost(db, p, n, h) ==
  LET v == validate_inputs(p, h) IN
  IF v.kind # "ok" THEN v
  ELSE IF ~InDatabase(db, n) THEN GPUNotFoundError(db, n)
  ELSE LET gpu_rec == Lookup(db, n)
           energy_kwh == gpu_rec.watts * h
           energy_cost == energy_kwh * p
           compute_cost == gpu_rec.hourly_cost_usd * h * WATTS_TO_KWH_CONVERSION
           total_cost == energy_cost + compute_cost
       IN [kind |-> "ok", energy_kwh |-> energy_kwh, energy_cost_usd |-> energy_cost,
           compute_cost_usd |-> compute_cost, total_cost_usd |-> total_cost]

calculate_local_cost_kwh_total(db, p, n, h) ==
  LET v == validate_inputs(p, h) IN
  IF v.kind # "ok" THEN v
  ELSE IF ~InDatabase(db, n) THEN GPUNotFoundError(db, n)
  ELSE LET gpu_rec == Lookup(db, n)
           energy_kwh == gpu_rec.watts * h
           energy_cost == energy_kwh * p
       IN [kind |-> "ok", energy_kwh |-> energy_kwh, energy_cost_usd |-> energy_cost,
           total_cost_usd |-> energy_kwh]

calculate_local_cost_with_compute(db, p, n, h) ==
  LET v == validate_inputs(p, h) IN
  IF v.kind # "ok" THEN v
  ELSE IF ~InDatabase(db, n) THEN GPUNotFoundError(db, n)
  ELSE LET gpu_rec == Lookup(db, n)
           energy_kwh == gpu_rec.watts * h
           energy_cost == energy_kwh * p
       IN [kind |-> "ok", energy_kwh |-> energy_kwh, energy_cost_usd |-> energy_cost,
           total_cost_usd |-> energy_cost + gpu_rec.hourly_cost_usd * h * WATTS_TO_KWH_CONVERSION]

calculate_local_cost(db, p, n, h) ==
  LET v == validate_inputs(p, h) IN
  IF v.kind # "ok" THEN v
  ELSE IF ~InDatabase(db, n) THEN GPUNotFoundError(db, n)
  ELSE LET gpu_rec == Lookup(db, n)
           energy_kwh == gpu_rec.watts * h
           energy_cost == energy_kwh * p
       IN [kind |-> "ok", energy_kwh |-> energy_kwh, energy_cost_usd |-> energy_cost,
           total_cost_usd |-> energy_cost]

\* ---------------------------------------------------------------- state
Init ==
  /\ catalog \in Catalogs
  /\ price \in Prices
  /\ hours \in Hours
  /\ gpu \in QueryNames
  /\ valRes = NoRes
  /\ cloudRes = NoRes
  /\ localRes = NoRes
  /\ pc = "start"
  /\ idx = 0
  /\ cheapestPrice = <<>>
  /\ cheapestLabel = ""
  /\ errors = <<>>
  /\ result = <<>>

ScanVars == <<pc, idx, cheapestPrice, cheapestLabel, errors, result>>

CallValidate ==
  /\ valRes = NoRes
  /\ valRes' = validate_inputs(price, hours)
  /\ UNCHANGED <<catalog, price, hours, gpu, cloudRes, localRes>>
  /\ UNCHANGED ScanVars

CallCloud ==
  /\ cloudRes = NoRes
  /\ cloudRes' = calculate_cloud_cost(catalog, price, gpu, hours)
  /\ UNCHANGED <<catalog, price, hours, gpu, valRes, localRes>>
  /\ UNCHANGED ScanVars

CallLocal ==
  /\ localRes = NoRes
  /\ localRes' = calculate_local_cost(catalog, price, gpu, hours)
  /\ UNCHANGED <<catalog, price, hours, gpu, valRes, cloudRes>>
  /\ UNCHANGED ScanVars

\* ------------------------------------------------- find_cheapest_option
\* f"☁️ Cloud - {gpu_name}" / f"🖥 Local - {gpu_name}" (emoji left out)
CloudLabel(n) == "Cloud - " \o n
LocalLabel(n) == "Local - " \o n

\* The two comparisons of one loop iteration: returns <<price, label>>
\* where price is <<>> while cheapest_price is None.
ScanUpdateLE(cp, cl, n, cloud_price, local_price) ==
  LET p1 == IF cp = <<>> \/ cloud_price < cp[1] THEN <<cloud_price>> ELSE cp
      l1 == IF cp = <<>> \/ cloud_price < cp[1] THEN CloudLabel(n) ELSE cl
      p2 == IF local_price <= p1[1] THEN <<local_price>> ELSE p1
      l2 == IF local_price <= p1[1] THEN LocalLabel(n) ELSE l1
  IN <<p2, l2>>

ScanUpdate(cp, cl, n, cloud_price, local_price) ==
  LET p1 == IF cp = <<>> \/ cloud_price < cp[1] THEN <<cloud_price>> ELSE cp
      l1 == IF cp = <<>> \/ cloud_price < cp[1] THEN CloudLabel(n) ELSE cl
      p2 == IF local_price < p1[1] THEN <<local_price>> ELSE p1
      l2 == IF local_price < p1[1] THEN LocalLabel(n) ELSE l1
  IN <<p2, l2>>

\* Final return: None (<<>>) when cheapest_price is None, else (label, price)
ScanResult(cp, cl) == IF cp = <<>> THEN <<>> ELSE <<cl, cp[1]>>

CostVars == <<catalog, price, hours, gpu, valRes, cloudRes, localRes>>

ScanEmptyTuple ==
  /\ pc = "start"
  /\ catalog = <<>>
  /\ pc' = "done"
  /\ result' = <<"", 0>>
  /\ UNCHANGED <<idx, cheapestPrice, cheapestLabel, errors>>
  /\ UNCHANGED CostVars

\* if not GPU_DATABASE: return None
ScanEmpty ==
  /\ pc = "start"
  /\ catalog = <<>>
  /\ pc' = "done"
  /\ result' = <<>>
  /\ UNCHANGED <<idx, cheapestPrice, cheapestLabel, errors>>
  /\ UNCHANGED CostVars

ScanBegin ==
  /\ pc = "start"
  /\ catalog # <<>>
  /\ pc' = "loop"
  /\ idx' = 1
  /\ cheapestPrice' = <<>>
  /\ cheapestLabel' = ""
  /\ UNCHANGED <<errors, result>>
  /\ UNCHANGED CostVars

ScanEntryBreak ==
  /\ pc = "loop"
  /\ idx <= Len(catalog)
  /\ LET n == catalog[idx].name
         cloud == calculate_cloud_cost(catalog, price, n, hours)
         local == calculate_local_cost(catalog, price, n, hours)
     IN IF cloud.kind # "ok"
          THEN /\ errors' = Append(errors, <<n, cloud>>)
               /\ UNCHANGED <<cheapestPrice, cheapestLabel>>
               /\ idx' = Len(catalog) + 1
        ELSE IF local.kind # "ok"
          THEN /\ errors' = Append(errors, <<n, local>>)
               /\ UNCHANGED <<cheapestPrice, cheapestLabel>>
               /\ idx' = Len(catalog) + 1
        ELSE LET u == ScanUpdate(cheapestPrice, cheapestLabel, n,
                                 cloud.total_cost_usd, local.total_cost_usd)
             IN /\ cheapestPrice' = u[1]
                /\ cheapestLabel' = u[2]
                /\ UNCHANGED errors
                /\ idx' = idx + 1
  /\ UNCHANGED <<pc, result>>
  /\ UNCHANGED CostVars

\* One iteration of the for loop, its try block and its except clause
ScanEntry ==
  /\ pc = "loop"
  /\ idx <= Len(catalog)
  /\ LET n == catalog[idx].name
         cloud == calculate_cloud_cost(catalog, price, n, hours)
         local == calculate_local_cost(catalog, price, n, hours)
     IN IF cloud.kind # "ok"
          THEN /\ errors' = Append(errors, <<n, cloud>>)
               /\ UNCHANGED <<cheapestPrice, cheapestLabel>>
        ELSE IF local.kind # "ok"
          THEN /\ errors' = Append(errors, <<n, local>>)
               /\ UNCHANGED <<cheapestPrice, cheapestLabel>>
        ELSE LET u == ScanUpdate(cheapestPrice, cheapestLabel, n,
                                 cloud.total_cost_usd, local.total_cost_usd)
             IN /\ cheapestPrice' = u[1]
                /\ cheapestLabel' = u[2]
                /\ UNCHANGED errors
  /\ idx' = idx + 1
  /\ UNCHANGED <<pc, result>>
  /\ UNCHANGED CostVars

ScanReturn ==
  /\ pc = "loop"
  /\ idx > Len(catalog)
  /\ pc' = "done"
  /\ result' = ScanResult(cheapestPrice, cheapestLabel)
  /\ UNCHANGED <<idx, cheapestPrice, cheapestLabel, errors>>
  /\ UNCHANGED CostVars

Next == CallValidate \/ CallCloud \/ CallLocal
        \/ ScanEmpty \/ ScanBegin \/ ScanEntry \/ ScanReturn

Spec == Init /\ [][Next]_vars

\* ================================================================ claims
Gpu == Lookup(catalog, gpu)

EntryCloud(i) == calculate_cloud_cost(catalog, price, catalog[i].name, hours)
EntryLocal(i) == calculate_local_cost(catalog, price, catalog[i].name, hours)
OkEntry(i) == EntryCloud(i).kind = "ok" /\ EntryLocal(i).kind = "ok"
FailingEntries == {i \in 1..Len(catalog) : ~OkEntry(i)}
\* (mode, GPU) options of the succeeding entries; mode 0 = cloud, 1 = local
Options == {<<i, m>> : i \in {j \in 1..Len(catalog) : OkEntry(j)}, m \in {0, 1}}
OptTotal(o) == IF o[2] = 0 THEN EntryCloud(o[1]).total_cost_usd
               ELSE EntryLocal(o[1]).total_cost_usd
OptLabel(o) == IF o[2] = 0 THEN "Cloud - " \o catalog[o[1]].name
               ELSE "Local - " \o catalog[o[1]].name
MinTotal == CHOOSE t \in {OptTotal(o) : o \in Options} :
              \A o \in Options : t <= OptTotal(o)
\* first minimum in catalog order, cloud before local
Winner == CHOOSE o \in Options :
            /\ OptTotal(o) = MinTotal
            /\ \A q \in Options : OptTotal(q) = MinTotal =>
                 (o[1] < q[1] \/ (o[1] = q[1] /\ o[2] <= q[2]))
ExpectedResult == IF Options = {} THEN <<>> ELSE <<OptLabel(Winner), MinTotal>>

\* C1: the scan returns the (label, price) of the minimum total over all
\* (mode, GPU) pairs of the succeeding entries, exact ties going to the first
\* option in catalog order with cloud before local; for a one-GPU catalog whose
\* cloud total exceeds its local total it returns the local label and the
\* local total.
C1_CheapestIsFirstMinimum ==
  pc = "done" =>
    /\ result = ExpectedResult
    /\ (Len(catalog) = 1 /\ OkEntry(1)
          /\ EntryCloud(1).total_cost_usd > EntryLocal(1).total_cost_usd)
         => result = <<"Local - " \o catalog[1].name, EntryLocal(1).total_cost_usd>>
C1_Witness ==
  /\ pc = "done" /\ Len(catalog) = 2 /\ Options # {}
  /\ Cardinality({o \in Options : OptTotal(o) = MinTotal}) >= 2

\* C2: a failing entry is reported and skipped; the scan goes on over every
\* entry, every failing entry is reported, and the result is the cheapest
\* among the succeeding entries.
C2_FailuresSkippedAndReported ==
  pc = "done" =>
    /\ Len(errors) = Cardinality(FailingEntries)
    /\ {errors[k][1] : k \in 1..Len(errors)} = {catalog[i].name : i \in FailingEntries}
    /\ \A k \in 1..Len(errors) : errors[k][2].kind \in {"GPUNotFoundError", "InvalidInputError"}
    /\ result = ExpectedResult
C2_Witness == pc = "done" /\ Len(errors) = 2

\* C3: on an empty catalog the scan returns None and reports no failure.
C3_EmptyCatalogNone ==
  (catalog = <<>> /\ pc = "done") => (result = <<>> /\ errors = <<>>)
C3_Witness == catalog = <<>> /\ pc = "done"

\* C4: a cloud breakdown is additive: total = energy cost + compute cost,
\* with energy = watts*hours/1000, energy cost = energy*price and
\* compute cost = hourly price*hours.
C4_CloudAdditive ==
  cloudRes.kind = "ok" =>
    /\ cloudRes.energy_kwh = Gpu.watts * hours
    /\ cloudRes.energy_cost_usd = Gpu.watts * hours * price
    /\ cloudRes.compute_cost_usd = Gpu.hourly_cost_usd * hours * WATTS_TO_KWH_CONVERSION
    /\ cloudRes.total_cost_usd = cloudRes.energy_cost_usd + cloudRes.compute_cost_usd
C4_Witness ==
  cloudRes.kind = "ok" /\ cloudRes.energy_cost_usd > 0 /\ cloudRes.compute_cost_usd > 0

\* C5: a local breakdown's total equals its energy cost and it has no
\* compute cost component.
C5_LocalTotalIsEnergy ==
  localRes.kind = "ok" =>
    /\ localRes.total_cost_usd = localRes.energy_cost_usd
    /\ "compute_cost_usd" \notin DOMAIN localRes
C5_Witness == localRes.kind = "ok" /\ localRes.energy_cost_usd > 0

\* C6: cloud total = local total + hourly price * hours, hence cloud total
\* >= local total.
C6_CloudIsLocalPlusCompute ==
  (cloudRes.kind = "ok" /\ localRes.kind = "ok") =>
    /\ cloudRes.total_cost_usd
         = localRes.total_cost_usd + Gpu.hourly_cost_usd * hours * WATTS_TO_KWH_CONVERSION
    /\ cloudRes.total_cost_usd >= localRes.total_cost_usd
C6_Witness ==
  /\ cloudRes.kind = "ok" /\ localRes.kind = "ok"
  /\ localRes.total_cost_usd > 0 /\ cloudRes.total_cost_usd > localRes.total_cost_usd

\* C7: with zero hours both cost functions return a total of zero.
C7_ZeroHoursZeroTotal ==
  hours = 0 =>
    /\ cloudRes.kind = "ok" => cloudRes.total_cost_usd = 0
    /\ localRes.kind = "ok" => localRes.total_cost_usd = 0
C7_Witness ==
  /\ hours = 0 /\ price > 0 /\ cloudRes.kind = "ok" /\ localRes.kind = "ok"
  /\ Gpu.hourly_cost_usd > 0

GpuAbsentValidInput == ~InDatabase(catalog, gpu) /\ price >= 0 /\ hours >= 0

\* C8 (as stated): for an absent GPU both functions fail with GPUNotFound
\* carrying the offending id and the valid ids as structured fields.
C8_GpuNotFoundStructured ==
  GpuAbsentValidInput =>
    \A r \in {cloudRes, localRes} :
      r.kind # "none" =>
        /\ r.kind = "GPUNotFoundError"
        /\ "gpu_id" \in DOMAIN r /\ "valid_ids" \in DOMAIN r

\* C8 (amended): for an absent GPU both functions fail with GPUNotFoundError
\* whose single argument is the message text naming the offending id and the
\* list of valid ids; there are no other fields.
C8_GpuNotFoundMessage ==
  GpuAbsentValidInput =>
    \A r \in {cloudRes, localRes} :
      r.kind # "none" =>
        /\ r.kind = "GPUNotFoundError"
        /\ DOMAIN r = {"kind", "args"}
        /\ Len(r.args) = 1
        /\ r.args[1][2] = gpu
        /\ r.args[1][4] = Keys(catalog)
C8_Witness ==
  GpuAbsentValidInput /\ Len(catalog) >= 1
  /\ cloudRes.kind # "none" /\ localRes.kind # "none"

\* C9: validate_inputs and both cost functions fail with InvalidInput exactly
\* when price < 0 or hours < 0, and then return no breakdown.
C9_InvalidInputExactly ==
  \A r \in {valRes, cloudRes, localRes} :
    r.kind # "none" =>
      /\ (r.kind = "InvalidInputError") <=> (price < 0 \/ hours < 0)
      /\ r.kind = "InvalidInputError" => "total_cost_usd" \notin DOMAIN r
C9_Witness ==
  /\ (price < 0 \/ hours < 0)
  /\ valRes.kind = "InvalidInputError" /\ cloudRes.kind = "InvalidInputError"
  /\ localRes.kind = "InvalidInputError"

\* C10: validation precedes the lookup: negative inputs with an absent GPU
\* give InvalidInput, not GPUNotFound.
C10_ValidationBeforeLookup ==
  ((price < 0 \/ hours < 0) /\ ~InDatabase(catalog, gpu)) =>
    \A r \in {cloudRes, localRes} : r.kind \in {"none", "InvalidInputError"}
C10_Witness ==
  /\ (price < 0 \/ hours < 0) /\ ~InDatabase(catalog, gpu)
  /\ cloudRes.kind # "none" /\ localRes.kind # "none"
====
